---- MODULE Spec2Model ----
(***************************************************************************)
(* A model of app/vehicle_service.py: the fetch / extract / decode / cache *)
(* pipeline behind get_vehicle_info.                                       *)
(*                                                                         *)
(* Text is a sequence of one-character strings, positions are 1-based and  *)
(* 0 stands for Python's -1 ("not found").  The key name "VrmDetails" is   *)
(* the one-character name "V": no other character of the alphabet occurs   *)
(* in it, so find() on the quoted key behaves as on the real name.         *)
(***************************************************************************)
EXTENDS Integers, Sequences, FiniteSets, TLC

\* ------------------------------------------------------------------ text

DQ == "\""
BS == "\\"
LB == "{"
RB == "}"
COLON == ":"
COMMA == ","
SP == " "
DIGIT == "9"

\* the key passed by _parse_html, 'VrmDetails'
VrmDetails == <<"V">>

\* f'"{key}"'
PlainKey(key) == <<DQ>> \o key \o <<DQ>>

\* f'\\"{key}\\"'
EscapedKey(key) == <<BS, DQ>> \o key \o <<BS, DQ>>

\* s[i:j+1] with 1-based inclusive positions
Slice(s, i, j) == IF i > j THEN <<>> ELSE SubSeq(s, i, j)

\* whether sub occurs in s at position i
OccursAt(s, sub, i) ==
    /\ i >= 1
    /\ i + Len(sub) - 1 <= Len(s)
    /\ SubSeq(s, i, i + Len(sub) - 1) = sub

\* str.find(sub, from): the lowest position >= from where sub occurs, 0 if none
RECURSIVE find(_, _, _)
find(s, sub, from) ==
    IF from + Len(sub) - 1 > Len(s) THEN 0
    ELSE IF OccursAt(s, sub, from) THEN from
    ELSE find(s, sub, from + 1)

\* ------------------------------------------------------------ json.loads
\* Values: <<"str", chars>>, <<"num", digits>>, <<"obj", f>> with f a
\* function from key (a sequence of characters) to value.

StrVal(chars) == <<"str", chars>>
NumVal(digits) == <<"num", digits>>
ObjVal(f) == <<"obj", f>>
EmptyObj == [k \in {} |-> <<>>]

ParseFail == [ok |-> FALSE, val |-> <<>>, next |-> 0]
ParseOk(v, n) == [ok |-> TRUE, val |-> v, next |-> n]

\* JSON whitespace
RECURSIVE SkipWs(_, _)
SkipWs(s, i) ==
    IF i <= Len(s) /\ s[i] = SP THEN SkipWs(s, i + 1) ELSE i

\* the characters a JSON backslash escape may name (of this alphabet)
JsonEscapable == {DQ, BS}

\* the body of a JSON string, from the position after its opening quote
RECURSIVE ParseStringBody(_, _, _)
ParseStringBody(s, i, acc) ==
    IF i > Len(s) THEN ParseFail
    ELSE IF s[i] = DQ THEN ParseOk(acc, i + 1)
    ELSE IF s[i] = BS
         THEN IF i + 1 <= Len(s) /\ s[i + 1] \in JsonEscapable
              THEN ParseStringBody(s, i + 2, Append(acc, s[i + 1]))
              ELSE ParseFail
    ELSE ParseStringBody(s, i + 1, Append(acc, s[i]))

\* a JSON number: a run of digits
RECURSIVE ParseDigits(_, _)
ParseDigits(s, i) ==
    IF i <= Len(s) /\ s[i] = DIGIT THEN ParseDigits(s, i + 1) ELSE i

RECURSIVE ParseValue(_, _)
RECURSIVE ParseMembers(_, _, _)

\* the members of an object, from the opening quote of a key
ParseMembers(s, i, f) ==
    IF i > Len(s) \/ s[i] # DQ THEN ParseFail
    ELSE LET k == ParseStringBody(s, i + 1, <<>>) IN
         IF ~k.ok THEN ParseFail
         ELSE LET c == SkipWs(s, k.next) IN
              IF c > Len(s) \/ s[c] # COLON THEN ParseFail
              ELSE LET v == ParseValue(s, SkipWs(s, c + 1)) IN
                   IF ~v.ok THEN ParseFail
                   ELSE LET g == (k.val :> v.val) @@ f
                            m == SkipWs(s, v.next)
                        IN IF m > Len(s) THEN ParseFail
                           ELSE IF s[m] = RB THEN ParseOk(ObjVal(g), m + 1)
                           ELSE IF s[m] = COMMA
                                THEN ParseMembers(s, SkipWs(s, m + 1), g)
                           ELSE ParseFail

ParseValue(s, i) ==
    IF i > Len(s) THEN ParseFail
    ELSE IF s[i] = DQ
         THEN LET r == ParseStringBody(s, i + 1, <<>>) IN
              IF r.ok THEN ParseOk(StrVal(r.val), r.next) ELSE ParseFail
    ELSE IF s[i] = DIGIT
         THEN LET e == ParseDigits(s, i) IN ParseOk(NumVal(SubSeq(s, i, e - 1)), e)
    ELSE IF s[i] = LB
         THEN LET j == SkipWs(s, i + 1) IN
              IF j <= Len(s) /\ s[j] = RB THEN ParseOk(ObjVal(EmptyObj), j + 1)
              ELSE ParseMembers(s, j, EmptyObj)
    ELSE ParseFail

\* json.JSONDecodeError: it carries the text it was raised on
JSONDecodeError(doc) == [ok |-> FALSE, type |-> "JSONDecodeError", msg |-> "decode", doc |-> doc]

Returned(v) == [ok |-> TRUE, val |-> v]

\* json.loads(s): one value, whitespace around it, and nothing else
json_loads(s) ==
    LET v == ParseValue(s, SkipWs(s, 1)) IN
    IF v.ok /\ SkipWs(s, v.next) = Len(s) + 1 THEN Returned(v.val)
    ELSE JSONDecodeError(s)

\* bytes(s, "utf-8").decode("unicode_escape"): \" and \\ are unescaped, an
\* escape Python does not know (every other one of this alphabet) is kept as
\* written, a lone trailing backslash is an error.
RECURSIVE UnescapeFrom(_, _, _)
UnescapeFrom(s, i, acc) ==
    IF i > Len(s) THEN [ok |-> TRUE, val |-> acc]
    ELSE IF s[i] # BS THEN UnescapeFrom(s, i + 1, Append(acc, s[i]))
    ELSE IF i = Len(s) THEN [ok |-> FALSE, val |-> <<>>]
    ELSE IF s[i + 1] \in {DQ, BS} THEN UnescapeFrom(s, i + 2, Append(acc, s[i + 1]))
    ELSE UnescapeFrom(s, i + 2, acc \o <<BS, s[i + 1]>>)

unicode_escape(s) == UnescapeFrom(s, 1, <<>>)

\* ------------------------------------------------------------ exceptions

ValueError(msg) == [ok |-> FALSE, type |-> "ValueError", msg |-> msg, doc |-> <<>>]

HTTPException(status, detail) ==
    [ok |-> FALSE, type |-> "HTTPException", status |-> status, detail |-> detail]

\* -------------------------------------------------------- _safe_json_load

\* a variant that raises the error of the second decode
safe_load_fallback_second_error(json_str, exc) ==
    LET unescaped == unicode_escape(json_str) IN
    IF unescaped.ok THEN json_loads(unescaped.val) ELSE exc

\* the except branch: unescape once and decode again; if that fails too,
\* raise the first error
safe_load_fallback(json_str, exc) ==
    LET unescaped == unicode_escape(json_str) IN
    IF unescaped.ok /\ json_loads(unescaped.val).ok
    THEN json_loads(unescaped.val)
    ELSE exc

_safe_json_load(json_str) ==
    LET exc == json_loads(json_str) IN
    IF exc.ok THEN exc ELSE safe_load_fallback(json_str, exc)

\* --------------------------------------------------- _extract_json_object

\* a variant that tries the escaped key first
KeyIndex_escaped_first(html, key) ==
    LET idx == find(html, EscapedKey(key), 1) IN
    IF idx # 0 THEN idx ELSE find(html, PlainKey(key), 1)

\* idx: the plain quoted key first, the escaped one if the plain is absent
KeyIndex(html, key) ==
    LET idx == find(html, PlainKey(key), 1) IN
    IF idx # 0 THEN idx ELSE find(html, EscapedKey(key), 1)

\* html.find('{', idx)
OpeningBrace(html, idx) == find(html, <<LB>>, idx)

\* the loop's variables before its first iteration
ScanInit == [brace_level |-> 0, in_string |-> FALSE, escaped |-> FALSE, closed |-> FALSE]

\* a variant that sets the flag at every backslash
ScanChar_every_backslash(st, ch) ==
    LET in_string == IF ch = DQ /\ ~st.escaped THEN ~st.in_string ELSE st.in_string
        brace_level == IF in_string THEN st.brace_level
                       ELSE IF ch = LB THEN st.brace_level + 1
                       ELSE IF ch = RB THEN st.brace_level - 1
                       ELSE st.brace_level
    IN [brace_level |-> brace_level, in_string |-> in_string,
        escaped |-> (ch = BS),
        closed |-> (~in_string /\ ch = RB /\ brace_level = 0)]

\* one iteration of the loop on character ch; closed: the loop returns here
ScanChar(st, ch) ==
    LET in_string == IF ch = DQ /\ ~st.escaped THEN ~st.in_string ELSE st.in_string
        brace_level == IF in_string THEN st.brace_level
                       ELSE IF ch = LB THEN st.brace_level + 1
                       ELSE IF ch = RB THEN st.brace_level - 1
                       ELSE st.brace_level
    IN [brace_level |-> brace_level,
        in_string   |-> in_string,
        escaped     |-> (ch = BS /\ ~st.escaped),
        closed      |-> (~in_string /\ ch = RB /\ brace_level = 0)]

\* the loop from pos on: the position it returns at, 0 if it runs off the end
RECURSIVE ScanFrom(_, _, _)
ScanFrom(html, pos, st) ==
    IF pos > Len(html) THEN 0
    ELSE LET n == ScanChar(st, html[pos]) IN
         IF n.closed THEN pos ELSE ScanFrom(html, pos + 1, n)

_extract_json_object(html, key) ==
    LET idx == KeyIndex(html, key) IN
    IF idx = 0 THEN ValueError("key not found in document")
    ELSE LET start == OpeningBrace(html, idx) IN
         IF start = 0 THEN ValueError("opening brace not found")
         ELSE LET end == ScanFrom(html, start, ScanInit) IN
              IF end = 0 THEN ValueError("could not find matching closing brace")
              ELSE _safe_json_load(SubSeq(html, start, end))

\* ------------------------------------------------------------ _parse_html

\* the group of r'"VrmDetails"\s*:\s*({.*?})' matched at position i, <<>> if
\* the pattern does not match there: the key, a colon, and from the next '{'
\* to the first '}' after it
RegexGroupAt(html, i) ==
    IF ~OccursAt(html, PlainKey(VrmDetails), i) THEN <<>>
    ELSE LET c == SkipWs(html, i + Len(PlainKey(VrmDetails))) IN
         IF c > Len(html) \/ html[c] # COLON THEN <<>>
         ELSE LET b == SkipWs(html, c + 1) IN
              IF b > Len(html) \/ html[b] # LB THEN <<>>
              ELSE LET e == find(html, <<RB>>, b + 1) IN
                   IF e = 0 THEN <<>> ELSE SubSeq(html, b, e)

\* a variant that tries the pattern at the first occurrence of the key only
RegexSearchFrom_first_key(html, i) ==
    LET k == find(html, PlainKey(VrmDetails), i) IN
    IF k = 0 THEN <<>> ELSE RegexGroupAt(html, k)

\* re.search: the match at the lowest position
RECURSIVE RegexSearchFrom(_, _)
RegexSearchFrom(html, i) ==
    IF i > Len(html) THEN <<>>
    ELSE IF RegexGroupAt(html, i) # <<>> THEN RegexGroupAt(html, i)
    ELSE RegexSearchFrom(html, i + 1)

\* the regex fallback of _parse_html, taken when the brace scan raised
regex_fallback(html, vrm) ==
    LET json_str == RegexSearchFrom(html, 1) IN
    IF json_str # <<>> /\ _safe_json_load(json_str).ok
    THEN _safe_json_load(json_str)
    ELSE HTTPException(404, [msg |-> "No vehicle data found", vrm |-> vrm])

_parse_html(html, vrm) ==
    LET data == _extract_json_object(html, VrmDetails) IN
    IF data.ok THEN data ELSE regex_fallback(html, vrm)

\* ------------------------------------------------------------- documents
\* The documents the extractor is run on: records encoded as JSON and
\* embedded after the key, and short documents of keys, braces, quotes and
\* backslashes.

MaxStrLen == 1
MaxDepth == 2
MaxBody == 3

\* the characters of a record's string values
StrAlphabet == {DQ, BS, LB, RB, "m"}

RECURSIVE SeqsUpTo(_, _)
SeqsUpTo(S, n) ==
    IF n = 0 THEN {<<>>}
    ELSE LET shorter == SeqsUpTo(S, n - 1) IN
         shorter \cup {Append(t, c) : t \in shorter, c \in S}

Strs == SeqsUpTo(StrAlphabet, MaxStrLen)

\* the key of a record's first field and, when it has one, of its second
KeyOrder == <<(<<"m">>), (<<"V">>)>>

\* records nested to depth d: no field, one field, or that field and a number
RECURSIVE Objs(_)
Objs(d) ==
    LET inner == {StrVal(t) : t \in Strs}
                 \cup (IF d <= 1 THEN {} ELSE {ObjVal(o) : o \in Objs(d - 1)})
    IN {EmptyObj}
       \cup {KeyOrder[1] :> v : v \in inner}
       \cup {(KeyOrder[1] :> v) @@ (KeyOrder[2] :> NumVal(<<DIGIT>>)) : v \in inner}

Records == Objs(MaxDepth)

\* A marked text: pairs <<character, inside a quoted string>>.
Unmarked(chars) == [i \in 1..Len(chars) |-> <<chars[i], FALSE>>]

RECURSIVE EncChars(_, _)
EncChars(chars, i) ==
    IF i > Len(chars) THEN <<>>
    ELSE (IF chars[i] \in {DQ, BS} THEN <<(<<BS, TRUE>>), (<<chars[i], TRUE>>)>>
          ELSE <<(<<chars[i], TRUE>>)>>) \o EncChars(chars, i + 1)

\* a JSON string literal
EncStr(chars) == Unmarked(<<DQ>>) \o EncChars(chars, 1) \o Unmarked(<<DQ>>)

RECURSIVE EncVal(_)
RECURSIVE EncMembers(_, _)
EncMembers(f, i) ==
    IF i > Len(KeyOrder) THEN <<>>
    ELSE IF KeyOrder[i] \notin DOMAIN f THEN EncMembers(f, i + 1)
    ELSE (IF i > 1 THEN Unmarked(<<COMMA>>) ELSE <<>>)
         \o EncStr(KeyOrder[i]) \o Unmarked(<<COLON>>) \o EncVal(f[KeyOrder[i]])
         \o EncMembers(f, i + 1)

\* the JSON encoding of a value
EncVal(v) ==
    IF v[1] = "str" THEN EncStr(v[2])
    ELSE IF v[1] = "num" THEN Unmarked(v[2])
    ELSE Unmarked(<<LB>>) \o EncMembers(v[2], 1) \o Unmarked(<<RB>>)

\* a text escaped one level for a surrounding script string
RECURSIVE EscapeOnce(_, _)
EscapeOnce(marked, i) ==
    IF i > Len(marked) THEN <<>>
    ELSE (IF marked[i][1] \in {DQ, BS} THEN <<(<<BS, marked[i][2]>>), marked[i]>>
          ELSE <<marked[i]>>) \o EscapeOnce(marked, i + 1)

Chars(marked) == [i \in 1..Len(marked) |-> marked[i][1]]
Marks(marked) == [i \in 1..Len(marked) |-> marked[i][2]]

\* filler before the key and after the object
Fillers == {<<(<<>>), (<<>>)>>, <<(<<"m", LB, DQ>>), (<<RB, DQ, "m">>)>>}

Forms == {"plain", "escaped"}

\* filler, the key in the given form, a colon, the record's encoding in that
\* form, filler
Embedded(rec, form, pre, post) ==
    LET key == IF form = "plain" THEN PlainKey(VrmDetails) ELSE EscapedKey(VrmDetails)
        enc == IF form = "plain" THEN EncVal(ObjVal(rec))
               ELSE EscapeOnce(EncVal(ObjVal(rec)), 1)
    IN Unmarked(pre \o key \o <<COLON>>) \o enc \o Unmarked(post)

RecordInputs ==
    {[html  |-> Chars(Embedded(rec, form, fill[1], fill[2])),
      marks |-> Marks(Embedded(rec, form, fill[1], fill[2])),
      kind  |-> form,
      rec   |-> ObjVal(rec)]
     : rec \in Records, form \in Forms, fill \in Fillers}

\* what may stand before the body of a short document: up to two keys, in
\* either form, the second perhaps after a brace and perhaps with its colon
Heads ==
    LET first == {<<>>, PlainKey(VrmDetails), EscapedKey(VrmDetails)}
        between == {<<>>, <<LB>>}
        second == {<<>>, PlainKey(VrmDetails), EscapedKey(VrmDetails),
                   PlainKey(VrmDetails) \o <<COLON>>}
    IN {a \o b \o c : a \in first, b \in between, c \in second}

Bodies == SeqsUpTo({LB, RB, DQ, BS}, MaxBody)

RawInputs ==
    {[html  |-> h \o b,
      marks |-> [i \in 1..Len(h \o b) |-> FALSE],
      kind  |-> "raw",
      rec   |-> <<"none">>]
     : h \in Heads, b \in Bodies}

ExtractInputs == RecordInputs \cup RawInputs

\* ----------------------------------------------------------- configuration

\* HTTP_RETRIES, default 3
RETRY_ATTEMPTS == 3
\* CACHE_TTL and CACHE_MAXSIZE are read from the environment (defaults 86400
\* seconds and 5000 entries); the model runs the service configured with a
\* lifetime of 2 clock ticks and room for 2 entries, so that expiry and
\* eviction happen within a few steps
CACHE_TTL == 2
CACHE_MAXSIZE == 2

\* the registration marks looked up, already validated and upper-cased
Vrms == {"A", "B"}

\* concurrent get_vehicle_info calls
Calls == {1, 2}

\* how many calls are made in all, and how far the clock runs
MaxCalls == 3
MaxTime == 2

\* ----------------------------------------------------------------- state

VARIABLES
    input,  \* the document _extract_json_object is run on, and what it was made from
    ex,     \* one run of _extract_json_object: its position and local variables
    now,    \* the cache's timer (time.monotonic)
    cache,  \* the TTLCache: its entries, least recently used first
    call,   \* each get_vehicle_info call: where it is, and its local variables
    pages,  \* the documents the upstream site may answer with, per mark
    budget, \* how many more calls will be made
    look    \* the lookup handler: where it is, its arguments and its response

vars == <<input, ex, now, cache, call, pages, budget, look>>

pipeline == <<now, cache, call, pages, budget>>

NoResult == [ok |-> FALSE, type |-> "none"]

ExStart(html) ==
    [pc |-> "find_key", html |-> html, idx |-> 0, start |-> 0, pos |-> 0,
     st |-> ScanInit, json_str |-> <<>>, exc |-> NoResult, result |-> NoResult]

\* -------------------------------------------------------------- TTLCache
\* cachetools.TTLCache(maxsize=CACHE_MAXSIZE, ttl=CACHE_TTL): an entry is
\* [key, value, expires]; an entry past its expiry stays in the sequence
\* until a write removes it, and is not seen by a read.  stored is history:
\* the time of the write that made the entry.

\* the expiry of an entry written with the timer at t
expiry(t) == t + CACHE_TTL

Entry(key, value, t) ==
    [key |-> key, value |-> value, expires |-> expiry(t), stored |-> t]

Held(c, key) == \E i \in 1..Len(c) : c[i].key = key

EntryOf(c, key) == c[CHOOSE i \in 1..Len(c) : c[i].key = key]

\* a variant that still sees an entry at the instant of its expiry
cache_contains_at_expiry(c, key, t) == Held(c, key) /\ t <= EntryOf(c, key).expires

\* vrm in cache, with the timer at t
cache_contains(c, key, t) == Held(c, key) /\ t < EntryOf(c, key).expires

\* a variant in which a read also renews the entry's lifetime
Touched_sliding(c, key) ==
    LET Other(e) == e.key # key IN
    IF Held(c, key)
    THEN Append(SelectSeq(c, Other), [EntryOf(c, key) EXCEPT !.expires = expiry(now)])
    ELSE c

\* the order of the entries after a read of key: it becomes the most recent
Touched(c, key) ==
    LET Other(e) == e.key # key IN
    IF Held(c, key) THEN Append(SelectSeq(c, Other), EntryOf(c, key)) ELSE c

KeyError(key) == [ok |-> FALSE, type |-> "KeyError", key |-> key]

\* cache[vrm], with the timer at t: the value, or KeyError when the key is
\* missing or its entry has expired
cache_getitem(c, key, t) ==
    IF Held(c, key) /\ t < EntryOf(c, key).expires
    THEN Returned(EntryOf(c, key).value)
    ELSE KeyError(key)

\* a variant that empties a full cache to make room
cache_setitem_clears(c, key, value, t) ==
    LET Live(e) == t < e.expires
        Other(e) == e.key # key
        live == SelectSeq(c, Live)
        kept == IF Held(live, key) THEN SelectSeq(live, Other)
                ELSE IF Len(live) + 1 > CACHE_MAXSIZE THEN <<>>
                ELSE live
    IN Append(kept, Entry(key, value, t))

\* cache[vrm] = value, with the timer at t: the expired entries are removed,
\* then the least recently used one if the cache is full and the key is new
cache_setitem(c, key, value, t) ==
    LET Live(e) == t < e.expires
        Other(e) == e.key # key
        live == SelectSeq(c, Live)
        kept == IF Held(live, key) THEN SelectSeq(live, Other)
                ELSE IF Len(live) + 1 > CACHE_MAXSIZE THEN Tail(live)
                ELSE live
    IN Append(kept, Entry(key, value, t))

\* ------------------------------------------------------------ _fetch_html

\* httpx.TimeoutException and the other httpx.TransportError, the two the
\* retry loop catches
TransportFailures == {"TimeoutException", "TransportError"}

\* a status raise_for_status raises httpx.HTTPStatusError on
ErrorStatuses == {503}

Failure(type, attempt) == [ok |-> FALSE, type |-> type, attempt |-> attempt]

HTTPStatusError(status, attempt) ==
    [ok |-> FALSE, type |-> "HTTPStatusError", status |-> status, attempt |-> attempt]

\* the raise after the loop
UpstreamFailed(last_exc) ==
    HTTPException(502, [msg |-> "Upstream request failed", last_exc |-> last_exc])

\* stages is history: the stages the call has entered, in order
IdleCall ==
    [pc |-> "idle", vrm |-> "", attempt |-> 0, requests |-> 0, sleeps |-> 0,
     last_exc |-> NoResult, result |-> NoResult, stages |-> <<>>]

\* a variant that goes round once more
retry_again_once_more(attempt) == attempt <= RETRY_ATTEMPTS

\* whether the loop goes round again after a failed attempt
retry_again(attempt) == attempt < RETRY_ATTEMPTS

\* -------------------------------------------------------- get_vehicle_info

\* a new call takes the first free slot
FreeSlot(c) == call[c].pc = "idle" /\ \A d \in Calls : d < c => call[d].pc # "idle"

\* the timer may move on between the two reads of one cache hit
Elapse == {dt \in {0, 1} : now + dt <= MaxTime}

\* vrm in cache is true: return cache[vrm]
CacheHit(c, vrm) ==
    /\ FreeSlot(c)
    /\ budget > 0
    /\ cache_contains(cache, vrm, now)
    /\ \E dt \in Elapse :
        LET r == cache_getitem(cache, vrm, now + dt) IN
        /\ now' = now + dt
        /\ call' = [call EXCEPT ![c] = [IdleCall EXCEPT
                        !.pc = IF r.ok THEN "done" ELSE "failed",
                        !.vrm = vrm,
                        !.result = r,
                        !.stages = <<"cache_check">>]]
    /\ cache' = Touched(cache, vrm)
    /\ budget' = budget - 1
    /\ UNCHANGED <<pages, input, ex, look>>

\* vrm in cache is false: _fetch_html sends its first request
CacheMiss(c, vrm) ==
    /\ FreeSlot(c)
    /\ budget > 0
    /\ ~cache_contains(cache, vrm, now)
    /\ call' = [call EXCEPT ![c] = [IdleCall EXCEPT
                    !.pc = "fetching", !.vrm = vrm, !.attempt = 1, !.requests = 1,
                    !.stages = <<"cache_check", "fetch">>]]
    /\ budget' = budget - 1
    /\ UNCHANGED <<now, cache, pages, input, ex, look>>

\* a call that has returned or raised: its locals are gone, what it returned
\* or raised is left, with the count of its requests and of its sleeps
Ended(c, result) ==
    [call[c] EXCEPT !.pc = IF result.ok THEN "done" ELSE "failed",
                    !.attempt = 0,
                    !.last_exc = NoResult,
                    !.result = result]

\* the stages _parse_html goes through on a document: the brace scan
\* extracts and, if it delimits a candidate, decodes it; when that raised,
\* the regex extracts and, if it matches, its group is decoded
ParseStages(html) ==
    LET data == _extract_json_object(html, VrmDetails)
        scan == IF data.ok \/ data.type = "JSONDecodeError"
                THEN <<"extract", "decode">> ELSE <<"extract">>
    IN IF data.ok THEN scan
       ELSE scan \o <<"extract">>
                 \o (IF RegexSearchFrom(html, 1) # <<>> THEN <<"decode">> ELSE <<>>)

\* what get_vehicle_info does with the text _fetch_html returned
Resolved(c, html) ==
    LET info == _parse_html(html, call[c].vrm) IN
    [Ended(c, info) EXCEPT
        !.stages = @ \o ParseStages(html) \o (IF info.ok THEN <<"store">> ELSE <<>>)]

\* a variant that keeps the entry a concurrent call has stored meanwhile
Stored_first_wins(c, html) ==
    LET info == _parse_html(html, call[c].vrm) IN
    IF info.ok /\ ~cache_contains(cache, call[c].vrm, now)
    THEN cache_setitem(cache, call[c].vrm, info.val, now)
    ELSE cache

\* a variant that writes the cache whatever _parse_html did
Stored_even_on_failure(c, html) ==
    LET info == _parse_html(html, call[c].vrm) IN
    cache_setitem(cache, call[c].vrm, IF info.ok THEN info.val ELSE <<"none">>, now)

\* what get_vehicle_info leaves in the cache
Stored(c, html) ==
    LET info == _parse_html(html, call[c].vrm) IN
    IF info.ok THEN cache_setitem(cache, call[c].vrm, info.val, now) ELSE cache

\* the request is answered with a success status: parse, store, return
Respond(c) ==
    /\ call[c].pc = "fetching"
    /\ \E html \in pages[call[c].vrm] :
        /\ call' = [call EXCEPT ![c] = Resolved(c, html)]
        /\ cache' = Stored(c, html)
    /\ UNCHANGED <<now, pages, budget, input, ex, look>>

\* a variant in which the except clause catches the status error too
RespondStatus_retried(c) ==
    /\ call[c].pc = "fetching"
    /\ \E status \in ErrorStatuses :
        call' = [call EXCEPT ![c].pc = "backoff",
                             ![c].last_exc = HTTPStatusError(status, call[c].attempt),
                             ![c].sleeps = call[c].sleeps + 1]
    /\ UNCHANGED <<now, cache, pages, budget, input, ex, look>>

\* the request is answered with an error status: raise_for_status raises,
\* and no except clause of _fetch_html catches it
RespondStatus(c) ==
    /\ call[c].pc = "fetching"
    /\ \E status \in ErrorStatuses :
        call' = [call EXCEPT ![c] = Ended(c, HTTPStatusError(status, call[c].attempt))]
    /\ UNCHANGED <<now, cache, pages, budget, input, ex, look>>

\* the request times out or the transport fails: warn and sleep
RequestFails(c) ==
    /\ call[c].pc = "fetching"
    /\ \E type \in TransportFailures :
        call' = [call EXCEPT ![c].pc = "backoff",
                             ![c].last_exc = Failure(type, call[c].attempt),
                             ![c].sleeps = call[c].sleeps + 1]
    /\ UNCHANGED <<now, cache, pages, budget, input, ex, look>>

\* a variant without the raise after the loop: the call sleeps on
Wake_without_raise(c) ==
    /\ call[c].pc = "backoff"
    /\ call' = IF retry_again(call[c].attempt)
               THEN [call EXCEPT ![c].pc = "fetching",
                                 ![c].attempt = call[c].attempt + 1,
                                 ![c].requests = call[c].requests + 1]
               ELSE call
    /\ UNCHANGED <<now, cache, pages, budget, input, ex, look>>

\* asyncio.sleep(1) returns: the next attempt, or the raise after the loop
Wake(c) ==
    /\ call[c].pc = "backoff"
    /\ call' = IF retry_again(call[c].attempt)
               THEN [call EXCEPT ![c].pc = "fetching",
                                 ![c].attempt = call[c].attempt + 1,
                                 ![c].requests = call[c].requests + 1]
               ELSE [call EXCEPT ![c] = Ended(c, UpstreamFailed(call[c].last_exc))]
    /\ UNCHANGED <<now, cache, pages, budget, input, ex, look>>

\* the caller has its answer
Return(c) ==
    /\ call[c].pc \in {"done", "failed"}
    /\ call' = [call EXCEPT ![c] = IdleCall]
    /\ UNCHANGED <<now, cache, pages, budget, input, ex, look>>

Tick ==
    /\ now < MaxTime
    /\ now' = now + 1
    /\ UNCHANGED <<cache, call, pages, budget, input, ex, look>>

\* the documents of the upstream site
Page(rec, form) == Chars(Embedded(rec, form, <<"m", LB, DQ>>, <<RB, DQ, "m">>))

Truncated == PlainKey(VrmDetails) \o <<COLON, LB, DQ, "m", DQ, COLON, DQ, "m", DQ>>

SitePages ==
    [v \in Vrms |->
        IF v = "A" THEN {Page(<<"m">> :> StrVal(<<"m">>), "plain"),
                         Page(<<"m">> :> StrVal(<<RB>>), "plain")}
        ELSE {Page(<<"m">> :> ObjVal(EmptyObj), "escaped"), Truncated}]

NoInput == [html |-> <<>>, marks |-> <<>>, kind |-> "none", rec |-> <<"none">>]

ExIdle == [ExStart(<<>>) EXCEPT !.pc = "idle"]

NoResponse == [status |-> 0]

\* start and end of the debug path before it has scanned (0 stands for -1)
NoSpan == [start |-> 0, end |-> 0]

\* no request is being handled; span and chunk are start, end and raw of the
\* debug path; stored_from is history: for each cache key, the identifier as
\* it was typed in the request whose call stored the entry
LookIdle ==
    [pc |-> "idle", raw |-> <<>>, debug |-> FALSE, vrm |-> <<>>, e |-> NoResult,
     requests |-> 0, debug_requests |-> 0, span |-> NoSpan, chunk |-> <<>>,
     response |-> NoResponse, stored_from |-> <<>>]

Init ==
    /\ now = 0
    /\ cache = <<>>
    /\ call = [c \in Calls |-> IdleCall]
    /\ pages = SitePages
    /\ budget = MaxCalls
    /\ input = NoInput
    /\ ex = ExIdle
    /\ look = LookIdle

Next ==
    \/ \E c \in Calls, vrm \in Vrms : CacheHit(c, vrm)
    \/ \E c \in Calls, vrm \in Vrms : CacheMiss(c, vrm)
    \/ \E c \in Calls : Respond(c)
    \/ \E c \in Calls : RespondStatus(c)
    \/ \E c \in Calls : RequestFails(c)
    \/ \E c \in Calls : Wake(c)
    \/ \E c \in Calls : Return(c)
    \/ Tick

Spec == Init /\ [][Next]_vars

\* A request not answered is ended by the client's timeout (TIMEOUT), and
\* every sleep returns.
Fairness == \A c \in Calls : WF_vars(RequestFails(c)) /\ WF_vars(Wake(c))

\* one caller, call after call
NextLive ==
    \/ \E vrm \in Vrms : CacheHit(1, vrm)
    \/ \E vrm \in Vrms : CacheMiss(1, vrm)
    \/ Respond(1)
    \/ RespondStatus(1)
    \/ RequestFails(1)
    \/ Wake(1)
    \/ Return(1)
    \/ Tick

SpecLive == Init /\ [][NextLive]_vars /\ Fairness

\* ------------------------------------- _extract_json_object, step by step

\* idx = html.find(...), and the first raise
ExFindKey ==
    /\ ex.pc = "find_key"
    /\ LET idx == KeyIndex(ex.html, VrmDetails) IN
       ex' = IF idx = 0
             THEN [ex EXCEPT !.pc = "done",
                             !.result = ValueError("key not found in document")]
             ELSE [ex EXCEPT !.pc = "find_brace", !.idx = idx]
    /\ UNCHANGED <<input, pipeline, look>>

\* start = html.find('{', idx), and the second raise
ExFindBrace ==
    /\ ex.pc = "find_brace"
    /\ LET start == OpeningBrace(ex.html, ex.idx) IN
       ex' = IF start = 0
             THEN [ex EXCEPT !.pc = "done",
                             !.result = ValueError("opening brace not found")]
             ELSE [ex EXCEPT !.pc = "scan", !.start = start, !.pos = start]
    /\ UNCHANGED <<input, pipeline, look>>

\* one iteration of the for loop
ExScan ==
    /\ ex.pc = "scan"
    /\ ex.pos <= Len(ex.html)
    /\ LET n == ScanChar(ex.st, ex.html[ex.pos]) IN
       ex' = IF n.closed
             THEN [ex EXCEPT !.pc = "decode", !.st = n,
                             !.json_str = SubSeq(ex.html, ex.start, ex.pos)]
             ELSE [ex EXCEPT !.st = n, !.pos = ex.pos + 1]
    /\ UNCHANGED <<input, pipeline, look>>

\* the loop ran off the end of the document: the third raise
ExScanEnd ==
    /\ ex.pc = "scan"
    /\ ex.pos > Len(ex.html)
    /\ ex' = [ex EXCEPT !.pc = "done",
                        !.result = ValueError("could not find matching closing brace")]
    /\ UNCHANGED <<input, pipeline, look>>

\* _safe_json_load: the first json.loads
ExDecode ==
    /\ ex.pc = "decode"
    /\ LET r == json_loads(ex.json_str) IN
       ex' = IF r.ok THEN [ex EXCEPT !.pc = "done", !.result = r]
             ELSE [ex EXCEPT !.pc = "fallback", !.exc = r]
    /\ UNCHANGED <<input, pipeline, look>>

\* _safe_json_load: the except branch
ExFallback ==
    /\ ex.pc = "fallback"
    /\ ex' = [ex EXCEPT !.pc = "done",
                        !.result = safe_load_fallback(ex.json_str, ex.exc)]
    /\ UNCHANGED <<input, pipeline, look>>

InitExtract ==
    /\ input \in ExtractInputs
    /\ ex = ExStart(input.html)
    /\ look = LookIdle
    /\ now = 0
    /\ cache = <<>>
    /\ call = [c \in Calls |-> IdleCall]
    /\ pages = SitePages
    /\ budget = 0

NextExtract ==
    \/ ExFindKey
    \/ ExFindBrace
    \/ ExScan
    \/ ExScanEnd
    \/ ExDecode
    \/ ExFallback

SpecExtract == InitExtract /\ [][NextExtract]_vars

\* ------------------------------------------- one mark, any document served

\* the site serves one document, any of those above, and the mark is looked
\* up twice, one call after the other
InitPages ==
    /\ \E i \in ExtractInputs : pages = [v \in Vrms |-> {i.html}]
    /\ now = 0
    /\ cache = <<>>
    /\ call = [c \in Calls |-> IdleCall]
    /\ budget = 2
    /\ input = NoInput
    /\ ex = ExIdle
    /\ look = LookIdle

NextPages ==
    \/ CacheMiss(1, "A")
    \/ Respond(1)
    \/ Return(1)
    \/ CacheHit(1, "A")

SpecPages == InitPages /\ [][NextPages]_vars

\* ------------------------------------------------ more keys than room
\* Calls for three identifiers, each served one page that decodes, so that
\* the cache fills and a store has to make room.

EvictVrms == {"A", "B", "C"}

EvictPages ==
    [v \in EvictVrms |->
        IF v = "A" THEN {Page(<<"m">> :> StrVal(<<"m">>), "plain")}
        ELSE IF v = "B" THEN {Page(<<"m">> :> StrVal(<<RB>>), "plain")}
        ELSE {Page(<<"m">> :> ObjVal(EmptyObj), "escaped")}]

InitEvict ==
    /\ now = 0
    /\ cache = <<>>
    /\ call = [c \in Calls |-> IdleCall]
    /\ pages = EvictPages
    /\ budget = MaxCalls
    /\ input = NoInput
    /\ ex = ExIdle
    /\ look = LookIdle

NextEvict ==
    \/ \E c \in Calls, vrm \in EvictVrms : CacheHit(c, vrm)
    \/ \E c \in Calls, vrm \in EvictVrms : CacheMiss(c, vrm)
    \/ \E c \in Calls : Respond(c)
    \/ \E c \in Calls : Return(c)
    \/ Tick

SpecEvict == InitEvict /\ [][NextEvict]_vars

\* ------------------------------------------------------------------ lookup
\* The route GET /{vrm}: the identifier as typed, upper-cased and validated,
\* then get_vehicle_info, and on an HTTPException with debug=true a second
\* fetch and the inline scan.

NL == "\n"

\* two characters outside ASCII whose upper-case forms are ASCII letters
DOTLESS_I == "dotless-i"
SHARP_S == "sharp-s"

\* the ASCII letters and digits the identifiers are made of
Alnum == {"a", "A", "I", "S", DIGIT}

\* str.upper of one character
upper_char(ch) ==
    IF ch = "a" THEN <<"A">>
    ELSE IF ch = DOTLESS_I THEN <<"I">>
    ELSE IF ch = SHARP_S THEN <<"S", "S">>
    ELSE <<ch>>

\* a variant that leaves the identifier as it was typed
upper_as_typed(s) == s

\* vrm.upper()
RECURSIVE upper(_)
upper(s) == IF s = <<>> THEN <<>> ELSE upper_char(Head(s)) \o upper(Tail(s))

\* {1,7} of VRM_RE
VRM_MAXLEN == 7

\* VRM_RE.fullmatch(vrm), VRM_RE = ^[A-Za-z0-9]{1,7}$
VRM_RE_fullmatch(s) ==
    /\ Len(s) \in 1..VRM_MAXLEN
    /\ \A i \in 1..Len(s) : s[i] \in Alnum

\* the Path(regex=...) check made before the handler runs: a match from the
\* start, where '$' also matches before a final newline
PathAccepts(raw) ==
    \/ VRM_RE_fullmatch(raw)
    \/ /\ Len(raw) > 0
       /\ raw[Len(raw)] = NL
       /\ VRM_RE_fullmatch(SubSeq(raw, 1, Len(raw) - 1))

\* n copies of ch
Repeat(ch, n) == [i \in 1..n |-> ch]

\* the identifiers typed in requests
RawVrms ==
    {<<"a">>, <<"A">>, <<"a", DIGIT>>, <<"A", DIGIT>>, <<"a", NL>>,
     <<"-">>, <<DOTLESS_I>>, <<SHARP_S>>,
     Repeat("a", VRM_MAXLEN), Repeat("a", VRM_MAXLEN + 1)}

\* ------------------------------------------ the inline scan of the debug path

\* idx, as the debug path finds it (-1 in the source is 0 here)
DebugKeyIndex(html) ==
    LET idx == find(html, PlainKey(VrmDetails), 1) IN
    IF idx # 0 THEN idx ELSE find(html, EscapedKey(VrmDetails), 1)

\* start = html.find('{', idx); with idx = -1 the search starts at the last
\* character
DebugStart(html, idx) ==
    IF idx # 0 THEN find(html, <<LB>>, idx)
    ELSE IF Len(html) > 0 /\ html[Len(html)] = LB THEN Len(html)
    ELSE 0

DebugScanInit(start) ==
    [brace |-> 0, in_str |-> FALSE, esc |-> FALSE, end |-> start, broke |-> FALSE]

\* one iteration of the loop, at position i
DebugScanChar(st, ch, i) ==
    LET in_str == IF ch = DQ /\ ~st.esc THEN ~st.in_str ELSE st.in_str
        brace == IF in_str THEN st.brace
                 ELSE IF ch = LB THEN st.brace + 1
                 ELSE IF ch = RB THEN st.brace - 1
                 ELSE st.brace
        broke == ~in_str /\ brace = 0
    IN [brace |-> brace, in_str |-> in_str,
        esc |-> (ch = BS /\ ~st.esc),
        end |-> IF broke THEN i ELSE st.end,
        broke |-> broke]

RECURSIVE DebugScanFrom(_, _, _)
DebugScanFrom(html, i, st) ==
    IF i > Len(html) \/ st.broke THEN st
    ELSE DebugScanFrom(html, i + 1, DebugScanChar(st, html[i], i))

\* start and end as the debug path computes them; start = 0 stands for -1,
\* and then the loop runs over the last character only and leaves end at -1
DebugSpan(html) ==
    LET start == DebugStart(html, DebugKeyIndex(html)) IN
    IF start = 0 THEN [start |-> 0, end |-> 0]
    ELSE [start |-> start, end |-> DebugScanFrom(html, start, DebugScanInit(start)).end]

\* raw = html[start:end+1] if start != -1 and end != -1 else ''
DebugRaw(html) ==
    LET span == DebugSpan(html) IN
    IF span.start # 0 /\ span.end # 0 THEN Slice(html, span.start, span.end) ELSE <<>>

\* ------------------------------------------------------ ast.literal_eval
\* ast.literal_eval on the text the debug scan cut out.  Python literals of
\* this alphabet: strings in double quotes (also triple-quoted, and adjacent
\* strings concatenated), runs of digits, and dict and set displays; a name
\* (m, V) or a backslash outside a string is an error.  The parse gives a
\* tree, <<"str", chars>>, <<"num", digits>>, <<"dict", pairs>> or
\* <<"set", elements>>, which is then converted.

\* any exception of literal_eval or of pyobj.items(): the handler catches
\* them all alike
LiteralEvalFailed == [ok |-> FALSE, type |-> "Exception"]

\* the body of a string literal: \" and \\ are unescaped, an escape Python
\* does not know is kept as written
RECURSIVE PyStringBody(_, _, _)
PyStringBody(s, i, acc) ==
    IF i > Len(s) THEN ParseFail
    ELSE IF s[i] = DQ THEN ParseOk(acc, i + 1)
    ELSE IF s[i] = BS
         THEN IF i = Len(s) THEN ParseFail
              ELSE IF s[i + 1] \in {DQ, BS}
                   THEN PyStringBody(s, i + 2, Append(acc, s[i + 1]))
              ELSE PyStringBody(s, i + 2, acc \o <<BS, s[i + 1]>>)
    ELSE PyStringBody(s, i + 1, Append(acc, s[i]))

\* the body of a triple-quoted string, up to the next three quotes
RECURSIVE PyTripleBody(_, _, _)
PyTripleBody(s, i, acc) ==
    IF i > Len(s) THEN ParseFail
    ELSE IF OccursAt(s, <<DQ, DQ, DQ>>, i) THEN ParseOk(acc, i + 3)
    ELSE IF s[i] = BS
         THEN IF i = Len(s) THEN ParseFail
              ELSE IF s[i + 1] \in {DQ, BS}
                   THEN PyTripleBody(s, i + 2, Append(acc, s[i + 1]))
              ELSE PyTripleBody(s, i + 2, acc \o <<BS, s[i + 1]>>)
    ELSE PyTripleBody(s, i + 1, Append(acc, s[i]))

\* one string literal, from its opening quote
PyString(s, i) ==
    IF OccursAt(s, <<DQ, DQ, DQ>>, i) THEN PyTripleBody(s, i + 3, <<>>)
    ELSE PyStringBody(s, i + 1, <<>>)

\* adjacent string literals make one string
RECURSIVE PyStrings(_, _, _)
PyStrings(s, i, acc) ==
    LET r == PyString(s, i) IN
    IF ~r.ok THEN ParseFail
    ELSE LET j == SkipWs(s, r.next) IN
         IF j <= Len(s) /\ s[j] = DQ THEN PyStrings(s, j, acc \o r.val)
         ELSE ParseOk(StrVal(acc \o r.val), r.next)

RECURSIVE PyExpr(_, _)
RECURSIVE PyDictRest(_, _, _)
RECURSIVE PySetRest(_, _, _)

\* a dict display after one of its values: '}', or ',' and '}' or more pairs
PyDictRest(s, i, pairs) ==
    LET m == SkipWs(s, i) IN
    IF m > Len(s) THEN ParseFail
    ELSE IF s[m] = RB THEN ParseOk(<<"dict", pairs>>, m + 1)
    ELSE IF s[m] # COMMA THEN ParseFail
    ELSE LET j == SkipWs(s, m + 1) IN
         IF j <= Len(s) /\ s[j] = RB THEN ParseOk(<<"dict", pairs>>, j + 1)
         ELSE LET k == PyExpr(s, j) IN
              IF ~k.ok THEN ParseFail
              ELSE LET c == SkipWs(s, k.next) IN
                   IF c > Len(s) \/ s[c] # COLON THEN ParseFail
                   ELSE LET v == PyExpr(s, SkipWs(s, c + 1)) IN
                        IF ~v.ok THEN ParseFail
                        ELSE PyDictRest(s, v.next, Append(pairs, <<k.val, v.val>>))

\* a set display after one of its elements
PySetRest(s, i, elts) ==
    LET m == SkipWs(s, i) IN
    IF m > Len(s) THEN ParseFail
    ELSE IF s[m] = RB THEN ParseOk(<<"set", elts>>, m + 1)
    ELSE IF s[m] # COMMA THEN ParseFail
    ELSE LET j == SkipWs(s, m + 1) IN
         IF j <= Len(s) /\ s[j] = RB THEN ParseOk(<<"set", elts>>, j + 1)
         ELSE LET e == PyExpr(s, j) IN
              IF ~e.ok THEN ParseFail
              ELSE PySetRest(s, e.next, Append(elts, e.val))

\* one expression, from its first character
PyExpr(s, i) ==
    IF i > Len(s) THEN ParseFail
    ELSE IF s[i] = DQ THEN PyStrings(s, i, <<>>)
    ELSE IF s[i] = DIGIT
         THEN LET e == ParseDigits(s, i) IN ParseOk(NumVal(SubSeq(s, i, e - 1)), e)
    ELSE IF s[i] = LB
         THEN LET j == SkipWs(s, i + 1) IN
              IF j <= Len(s) /\ s[j] = RB THEN ParseOk(<<"dict", <<>>>>, j + 1)
              ELSE LET first == PyExpr(s, j) IN
                   IF ~first.ok THEN ParseFail
                   ELSE LET c == SkipWs(s, first.next) IN
                        IF c <= Len(s) /\ s[c] = COLON
                        THEN LET v == PyExpr(s, SkipWs(s, c + 1)) IN
                             IF ~v.ok THEN ParseFail
                             ELSE PyDictRest(s, v.next, <<<<first.val, v.val>>>>)
                        ELSE PySetRest(s, first.next, <<first.val>>)
    ELSE ParseFail

RECURSIVE PyConvert(_)
RECURSIVE PyConvertPairs(_, _, _)
RECURSIVE PyConvertElts(_, _, _)

\* a dict or a set is not hashable: it is no key and no element of a set
Hashable(v) == v[1] \in {"str", "num"}

PyConvertPairs(pairs, i, f) ==
    IF i > Len(pairs) THEN Returned(<<"dict", f>>)
    ELSE LET k == PyConvert(pairs[i][1])
             v == PyConvert(pairs[i][2])
         IN IF ~k.ok \/ ~v.ok \/ ~Hashable(pairs[i][1]) THEN LiteralEvalFailed
            ELSE PyConvertPairs(pairs, i + 1, (k.val :> v.val) @@ f)

PyConvertElts(elts, i, acc) ==
    IF i > Len(elts) THEN Returned(<<"set", acc>>)
    ELSE LET e == PyConvert(elts[i]) IN
         IF ~e.ok \/ ~Hashable(elts[i]) THEN LiteralEvalFailed
         ELSE PyConvertElts(elts, i + 1, acc \cup {e.val})

\* the value of a tree
PyConvert(node) ==
    IF Hashable(node) THEN Returned(node)
    ELSE IF node[1] = "dict" THEN PyConvertPairs(node[2], 1, EmptyObj)
    ELSE PyConvertElts(node[2], 1, {})

\* ast.literal_eval(raw): leading blanks are stripped, then one expression
\* and nothing after it but blanks
literal_eval(raw) ==
    LET v == PyExpr(raw, SkipWs(raw, 1)) IN
    IF v.ok /\ SkipWs(raw, v.next) = Len(raw) + 1 THEN PyConvert(v.val)
    ELSE LiteralEvalFailed

\* ------------------------------------------------------- lookup, its steps

\* the identifiers get_vehicle_info can be called with
LookupKeys == {upper(raw) : raw \in {r \in RawVrms : VRM_RE_fullmatch(upper(r))}}

\* a page whose object json.loads rejects (an escape JSON does not know) and
\* Python reads as a dict
PythonOnly ==
    PlainKey(VrmDetails) \o <<COLON, LB, DQ, "m", DQ, COLON, DQ, BS, "m", DQ, RB>>

\* what the upstream site serves for these identifiers
LookupPages ==
    [k \in LookupKeys |->
        IF k = <<"A">> THEN {Page(<<"m">> :> StrVal(<<"m">>), "plain"), Truncated}
        ELSE IF k = <<"A", DIGIT>> THEN {PythonOnly}
        ELSE {Page(<<"m">> :> ObjVal(EmptyObj), "escaped")}]

\* Response("\n".join(lines), media_type="text/plain") for a record
Lines(rec) == [status |-> 200, body |-> <<"lines", rec>>]

\* the "Extraction failed" text of the debug path
ExtractionFailed(detail, raw) ==
    [status |-> 200, body |-> <<"Extraction failed", detail, raw>>]

\* what the caller gets when the handler raises: the status of an
\* HTTPException, 500 for any other exception
Raised(exc) ==
    IF exc.type = "HTTPException" THEN [status |-> exc.status, body |-> exc.detail]
    ELSE [status |-> 500, body |-> exc.type]

\* a request arrives: upper-case the identifier and validate it
Lookup(raw, debug) ==
    /\ look.pc = "idle"
    /\ call[1].pc = "idle"
    /\ budget > 0
    /\ PathAccepts(raw)
    /\ LET vrm == upper(raw) IN
       look' = IF VRM_RE_fullmatch(vrm)
               THEN [look EXCEPT !.pc = "validated", !.raw = raw,
                                 !.debug = debug, !.vrm = vrm]
               ELSE [look EXCEPT !.pc = "responded", !.raw = raw,
                                 !.debug = debug, !.vrm = vrm,
                                 !.response = Raised(HTTPException(400,
                                        "Invalid registration format"))]
    /\ UNCHANGED <<input, ex, pipeline>>

\* info = await get_vehicle_info(vrm): the cache check
LookupResolve ==
    /\ look.pc = "validated"
    /\ \/ CacheHit(1, look.vrm)
       \/ CacheMiss(1, look.vrm)

\* the steps of get_vehicle_info on behalf of the handler
LookupFetch ==
    /\ look.pc = "validated"
    /\ \/ Respond(1)
       \/ RespondStatus(1)
       \/ RequestFails(1)
       \/ Wake(1)

\* the first request of a _fetch_html call
FirstRequest(vrm) ==
    [IdleCall EXCEPT !.pc = "fetching", !.vrm = vrm, !.attempt = 1, !.requests = 1,
                     !.stages = <<"fetch">>]

\* get_vehicle_info has returned or raised: the response, the exception
\* passed on, or with debug=true and an HTTPException the second fetch
LookupEnds ==
    /\ look.pc = "validated"
    /\ call[1].pc \in {"done", "failed"}
    /\ LET r == call[1].result
           mine == [look EXCEPT !.requests = call[1].requests]
       IN IF r.ok
          THEN /\ look' = [mine EXCEPT
                    !.pc = "responded",
                    !.response = Lines(r.val),
                    !.stored_from = IF call[1].requests > 0
                                    THEN (look.vrm :> look.raw) @@ @ ELSE @]
               /\ call' = [call EXCEPT ![1] = IdleCall]
          ELSE IF r.type = "HTTPException" /\ look.debug
          THEN /\ look' = [mine EXCEPT !.pc = "debug", !.e = r]
               /\ call' = [call EXCEPT ![1] = FirstRequest(look.vrm)]
          ELSE /\ look' = [mine EXCEPT !.pc = "responded", !.e = r,
                                       !.response = Raised(r)]
               /\ call' = [call EXCEPT ![1] = IdleCall]
    /\ UNCHANGED <<now, cache, pages, budget, input, ex>>

\* the steps of the debug path's _fetch_html that fail
DebugFetch ==
    /\ look.pc = "debug"
    /\ \/ RespondStatus(1)
       \/ RequestFails(1)
       \/ Wake(1)

\* the debug path's _fetch_html raised: the handler raises it in turn
DebugFetchFails ==
    /\ look.pc = "debug"
    /\ call[1].pc = "failed"
    /\ look' = [look EXCEPT !.pc = "responded",
                            !.debug_requests = call[1].requests,
                            !.response = Raised(call[1].result)]
    /\ call' = [call EXCEPT ![1] = IdleCall]
    /\ UNCHANGED <<now, cache, pages, budget, input, ex>>

\* a variant that keeps what literal_eval read in the cache
DebugRespond_caches ==
    /\ look.pc = "debug"
    /\ call[1].pc = "fetching"
    /\ \E html \in pages[look.vrm] :
        LET raw == DebugRaw(html)
            pyobj == literal_eval(raw)
            read == pyobj.ok /\ pyobj.val[1] = "dict"
        IN /\ look' = [look EXCEPT
                    !.pc = "responded",
                    !.debug_requests = call[1].requests,
                    !.span = DebugSpan(html),
                    !.chunk = raw,
                    !.response = IF read THEN Lines(pyobj.val)
                                 ELSE ExtractionFailed(look.e.detail, raw)]
           /\ cache' = IF read THEN cache_setitem(cache, look.vrm, pyobj.val, now)
                       ELSE cache
    /\ call' = [call EXCEPT ![1] = IdleCall]
    /\ UNCHANGED <<now, pages, budget, input, ex>>

\* the debug path's _fetch_html returned: the inline scan, literal_eval and
\* one of the two text responses
DebugRespond ==
    /\ look.pc = "debug"
    /\ call[1].pc = "fetching"
    /\ \E html \in pages[look.vrm] :
        LET raw == DebugRaw(html)
            pyobj == literal_eval(raw)
        IN look' = [look EXCEPT
                !.pc = "responded",
                !.debug_requests = call[1].requests,
                !.span = DebugSpan(html),
                !.chunk = raw,
                !.response = IF pyobj.ok /\ pyobj.val[1] = "dict"
                             THEN Lines(pyobj.val)
                             ELSE ExtractionFailed(look.e.detail, raw)]
    /\ call' = [call EXCEPT ![1] = IdleCall]
    /\ UNCHANGED <<now, cache, pages, budget, input, ex>>

\* the response is sent
Deliver ==
    /\ look.pc = "responded"
    /\ look' = [LookIdle EXCEPT !.stored_from = look.stored_from]
    /\ UNCHANGED <<input, ex, pipeline>>

InitLookup ==
    /\ now = 0
    /\ cache = <<>>
    /\ call = [c \in Calls |-> IdleCall]
    /\ pages = LookupPages
    /\ budget = MaxCalls
    /\ input = NoInput
    /\ ex = ExIdle
    /\ look = LookIdle

NextLookup ==
    \/ \E raw \in RawVrms, debug \in BOOLEAN : Lookup(raw, debug)
    \/ LookupResolve
    \/ LookupFetch
    \/ LookupEnds
    \/ DebugFetch
    \/ DebugFetchFails
    \/ DebugRespond
    \/ Deliver
    \/ Tick

SpecLookup == InitLookup /\ [][NextLookup]_vars

\* ------------------------------------- the two scans on the same document
\* The debug path of a request whose resolution has failed, its second fetch
\* answered with any of the documents above, beside a run of
\* _extract_json_object on the same document.

DebugEntered ==
    [LookIdle EXCEPT !.pc = "debug", !.raw = <<"A">>, !.debug = TRUE, !.vrm = <<"A">>,
                     !.e = HTTPException(404, "Vehicle data not found"),
                     !.requests = 1]

InitScans ==
    /\ input \in ExtractInputs
    /\ ex = ExStart(input.html)
    /\ look = DebugEntered
    /\ now = 0
    /\ cache = <<>>
    /\ call = [c \in Calls |-> IF c = 1 THEN FirstRequest(<<"A">>) ELSE IdleCall]
    /\ pages = [k \in LookupKeys |-> {input.html}]
    /\ budget = 0

NextScans ==
    \/ ExFindKey
    \/ ExFindBrace
    \/ ExScan
    \/ ExScanEnd
    \/ ExDecode
    \/ ExFallback
    \/ DebugRespond

SpecScans == InitScans /\ [][NextScans]_vars

\* the run agrees with the function computed in one go
ExAgrees ==
    ex.pc = "done" => ex.result = _extract_json_object(input.html, VrmDetails)

\* ------------------------------------------------------------ properties

\* the age at time t of the entry the cache holds for key
Age(key, t) == t - EntryOf(cache, key).stored

\* a call of get_vehicle_info begins (and makes its cache check) in this step
Begins(c) == call[c].pc = "idle" /\ call'[c].pc # "idle"

Derivable(vrm) ==
    {_parse_html(html, vrm).val : html \in {h \in pages[vrm] : _parse_html(h, vrm).ok}}

\* the entries of a cache, without their order
Content(c) == {c[i] : i \in 1..Len(c)}

\* C2: no failure is cached.  The cache starts empty, and an entry is written
\* only in the step in which a call for its key returns its record after a
\* fetch, the record being one _parse_html derives from a document served for
\* that key; a call that fails after its cache check leaves the cache as it
\* was.
C2_NoFailureCached ==
    [][/\ \A e \in Content(cache') \ Content(cache) :
            /\ e.value \in Derivable(e.key)
            /\ \E c \in Calls :
                /\ call[c].pc = "fetching" /\ call'[c].pc = "done"
                /\ call[c].vrm = e.key
                /\ call'[c].result = Returned(e.value)
       /\ \A c \in Calls :
            (call[c].pc \in {"fetching", "backoff"} /\ call'[c].pc = "failed")
                => cache' = cache]_vars

\* a call failed on the document it fetched, nothing is cached for its mark,
\* and another call for the same mark is fetching
C2_Witness ==
    \E c, d \in Calls :
        /\ call[c].pc = "failed" /\ call[c].result.type = "HTTPException"
        /\ call[c].result.status = 404
        /\ call[d].pc = "fetching" /\ call[d].vrm = call[c].vrm
        /\ ~Held(cache, call[c].vrm)

\* the call has ended and each of its requests ended in a transport failure
AllAttemptsFailed(c) ==
    /\ call[c].pc \in {"done", "failed"}
    /\ call[c].requests > 0
    /\ call[c].sleeps = call[c].requests

\* UpstreamError: HTTPException with status 502
IsUpstreamError(r) == r.type = "HTTPException" /\ r.status = 502

\* C3: no call sends more than RETRY_ATTEMPTS requests; a call whose every
\* attempt ended in a timeout or transport failure sent exactly RETRY_ATTEMPTS
\* and failed with the 502 error carrying the failure of the last attempt.
C3_RetriesExhausted ==
    \A c \in Calls :
        /\ call[c].requests <= RETRY_ATTEMPTS
        /\ AllAttemptsFailed(c) =>
            /\ call[c].requests = RETRY_ATTEMPTS
            /\ call[c].pc = "failed"
            /\ IsUpstreamError(call[c].result)
            /\ call[c].result.detail.last_exc.type \in TransportFailures
            /\ call[c].result.detail.last_exc.attempt = RETRY_ATTEMPTS
        /\ (call[c].pc = "failed" /\ call[c].result.type = "HTTPException"
            /\ call[c].result.status = 502) => AllAttemptsFailed(c)

C3_Witness ==
    \E c \in Calls : call[c].pc = "failed" /\ IsUpstreamError(call[c].result)

\* C4: only timeouts and transport failures are retried; a call that got an
\* error status at attempt k ended there: it sent k requests and slept only
\* after the k - 1 attempts before.
C4_StatusFailsAtOnce ==
    \A c \in Calls :
        /\ call[c].pc = "backoff" => call[c].last_exc.type \in TransportFailures
        /\ (call[c].pc = "failed" /\ IsUpstreamError(call[c].result))
            => call[c].result.detail.last_exc.type \in TransportFailures
        /\ (call[c].pc = "failed" /\ call[c].result.type = "HTTPStatusError")
            => /\ call[c].requests = call[c].result.attempt
               /\ call[c].sleeps = call[c].result.attempt - 1

\* an error status at a retry
C4_Witness ==
    \E c \in Calls :
        /\ call[c].pc = "failed" /\ call[c].result.type = "HTTPStatusError"
        /\ call[c].result.attempt > 1

\* the call failed in _fetch_html: it sent a request and what it raised is
\* not the 404 of _parse_html
FetchFailed(c) ==
    /\ call[c].pc = "failed"
    /\ call[c].requests > 0
    /\ ~(call[c].result.type = "HTTPException" /\ call[c].result.status = 404)

\* C5: every failure of the fetch reaches the caller as UpstreamError, the
\* HTTPException with status 502 that lookup handles.
C5_FetchFailsAsUpstreamError ==
    \A c \in Calls : FetchFailed(c) => IsUpstreamError(call[c].result)

\* C6: a record encoded as JSON and embedded after the key, in the plain or
\* in the escaped form, comes back from _extract_json_object as that record.
C6_RoundTrip ==
    (ex.pc = "done" /\ input.kind \in Forms) => ex.result = Returned(input.rec)

\* C7: while the loop scans, a brace that lies inside a quoted string of the
\* embedded object leaves brace_level as it is, in either form of quoting.
C7_BracesInStringsIgnored ==
    [][(/\ ex.pc = "scan"
        /\ ex.pos <= Len(ex.html)
        /\ input.marks[ex.pos]
        /\ ex.html[ex.pos] \in {LB, RB})
            => ex'.st.brace_level = ex.st.brace_level]_vars

Min(S) == CHOOSE x \in S : \A y \in S : x <= y

Occurrences(h, sub) == {i \in 1..Len(h) : OccursAt(h, sub, i)}

KeyPresent(h) ==
    Occurrences(h, PlainKey(VrmDetails)) \cup Occurrences(h, EscapedKey(VrmDetails)) # {}

\* the first plain key if there is one, else the first escaped key
KeyPosition(h) ==
    IF Occurrences(h, PlainKey(VrmDetails)) # {}
    THEN Min(Occurrences(h, PlainKey(VrmDetails)))
    ELSE Min(Occurrences(h, EscapedKey(VrmDetails)))

BracesFrom(h, p) == {j \in p..Len(h) : h[j] = LB}

NotFound == ValueError("key not found in document")
MalformedNoBrace == ValueError("opening brace not found")
MalformedUnclosed == ValueError("could not find matching closing brace")

\* C8: the run ends with the key-not-found error exactly when the key is in
\* the document in neither form; with the key there (the plain form first), it
\* ends with the no-opening-brace error exactly when no '{' follows the key,
\* and with the no-closing-brace error exactly when the loop, started at the
\* first '{' after the key, reaches the end of the document with brace_level
\* never back at zero; otherwise the candidate is the text from that '{' to
\* the position where brace_level is zero again.
C8_ExtractOutcome ==
    LET h == ex.html
        delimited == ex.pc \in {"decode", "fallback"} \/ (ex.pc = "done" /\ ex.json_str # <<>>)
    IN /\ ex.pc = "done" => ((ex.result = NotFound) <=> ~KeyPresent(h))
       /\ (ex.pc = "done" /\ KeyPresent(h)) =>
            ((ex.result = MalformedNoBrace) <=> (BracesFrom(h, KeyPosition(h)) = {}))
       /\ ex.pc \in {"scan", "decode", "fallback"} =>
            /\ ex.idx = KeyPosition(h)
            /\ ex.start = Min(BracesFrom(h, KeyPosition(h)))
       /\ (ex.pc = "scan" /\ ex.pos > ex.start) => ex.st.brace_level > 0
       /\ (ex.pc = "done" /\ ex.result = MalformedUnclosed) =>
            /\ ex.pos = Len(h) + 1
            /\ ex.start = Min(BracesFrom(h, KeyPosition(h)))
       /\ (ex.pc = "done" /\ KeyPresent(h) /\ BracesFrom(h, KeyPosition(h)) # {}
           /\ ex.result # MalformedUnclosed) => delimited
       /\ delimited =>
            /\ ex.st.brace_level = 0
            /\ ex.pos <= Len(h)
            /\ ex.json_str = SubSeq(h, Min(BracesFrom(h, KeyPosition(h))), ex.pos)

\* a candidate was delimited in a document that holds the escaped key first,
\* then a brace, then the plain key
C8_Witness ==
    LET plain == Occurrences(ex.html, PlainKey(VrmDetails))
        escaped == Occurrences(ex.html, EscapedKey(VrmDetails))
    IN /\ ex.pc = "decode"
       /\ plain # {} /\ escaped # {}
       /\ \E j \in 1..Len(ex.html) :
            ex.html[j] = LB /\ Min(escaped) < j /\ j < Min(plain)

\* C10: the fallback is entered only after the first decode failed; a first
\* decode that succeeds is the result; a fallback that succeeds is the
\* result; when both fail the error raised is the one of the first decode.
C10_SafeLoadErrors ==
    LET primary == json_loads(ex.json_str)
        unescaped == unicode_escape(ex.json_str)
    IN /\ ex.pc = "fallback" => (~primary.ok /\ ex.exc = primary)
       /\ (ex.pc = "done" /\ ex.json_str # <<>>) =>
            /\ primary.ok => (ex.result = primary /\ ex.exc = NoResult)
            /\ (~primary.ok /\ unescaped.ok /\ json_loads(unescaped.val).ok)
                    => ex.result = json_loads(unescaped.val)
            /\ (~primary.ok /\ ~(unescaped.ok /\ json_loads(unescaped.val).ok))
                    => ex.result = JSONDecodeError(ex.json_str)

\* both decodes failed, on different texts
C10_Witness ==
    /\ ex.pc = "done" /\ ex.json_str # <<>>
    /\ ~ex.result.ok
    /\ unicode_escape(ex.json_str).ok
    /\ unicode_escape(ex.json_str).val # ex.json_str

\* the document the site serves for a mark when it serves only one
Served(vrm) == CHOOSE h \in pages[vrm] : TRUE

\* a call that fetched has ended
FetchedAndEnded(c) == call[c].pc \in {"done", "failed"} /\ call[c].requests > 0

\* C9 as stated: a call returns, and caches, a record only if the brace scan
\* delimits a candidate that decodes, the record being that decoding; when
\* the scan fails or its candidate does not decode the call fails.
C9_OnlyTheScanDecides ==
    \A c \in Calls :
        FetchedAndEnded(c) =>
            LET scanned == _extract_json_object(Served(call[c].vrm), VrmDetails) IN
            /\ call[c].pc = "done" => (scanned.ok /\ call[c].result = scanned)
            /\ ~scanned.ok => call[c].pc = "failed"

\* whether h[a..z] is whitespace only
Blank(h, a, z) == \A j \in a..z : h[j] = SP

\* whether the pattern "VrmDetails" \s* : \s* { matches at i with its brace at b
PatternAt(h, i, b) ==
    /\ OccursAt(h, PlainKey(VrmDetails), i)
    /\ b <= Len(h) /\ h[b] = LB
    /\ \E k \in (i + Len(PlainKey(VrmDetails)))..(b - 1) :
        /\ h[k] = COLON
        /\ Blank(h, i + Len(PlainKey(VrmDetails)), k - 1)
        /\ Blank(h, k + 1, b - 1)

\* the matches of the pattern that have a '}' after their brace
PatternMatches(h) ==
    {m \in (1..Len(h)) \X (1..Len(h)) :
        PatternAt(h, m[1], m[2]) /\ \E e \in (m[2] + 1)..Len(h) : h[e] = RB}

\* the text the regex fallback decodes: from the brace of the first match to
\* the first '}' after it
FallbackText(h) ==
    LET m == CHOOSE m \in PatternMatches(h) : \A n \in PatternMatches(h) : m[1] <= n[1]
    IN SubSeq(h, m[2], Min({e \in (m[2] + 1)..Len(h) : h[e] = RB}))

\* C9 as amended: a call returns, and caches, a record only if the brace scan
\* delimits a candidate that decodes (the record is that decoding) or, the
\* scan having failed, the text from the brace of the first "VrmDetails" : {
\* to the first '}' after it decodes (the record is that decoding); when
\* neither decodes the call fails with the 404 error and caches nothing.
C9_ScanThenRegexFallback ==
    \A c \in Calls :
        FetchedAndEnded(c) =>
            LET h == Served(call[c].vrm)
                scanned == _extract_json_object(h, VrmDetails)
                rescued == /\ ~scanned.ok
                           /\ PatternMatches(h) # {}
                           /\ _safe_json_load(FallbackText(h)).ok
            IN /\ scanned.ok => call[c].result = scanned
               /\ rescued => call[c].result = _safe_json_load(FallbackText(h))
               /\ (~scanned.ok /\ ~rescued) =>
                    /\ call[c].pc = "failed"
                    /\ call[c].result.type = "HTTPException"
                    /\ call[c].result.status = 404
                    /\ cache = <<>>
               /\ call[c].pc = "done" =>
                    /\ Held(cache, call[c].vrm)
                    /\ EntryOf(cache, call[c].vrm).value = call[c].result.val

\* a call returned a record although the brace scan failed
C9_Witness ==
    \E c \in Calls :
        /\ call[c].pc = "done" /\ call[c].requests > 0
        /\ ~_extract_json_object(Served(call[c].vrm), VrmDetails).ok

\* ------------------------------------------------------------------- C11

\* an identifier of 1 to 7 upper-case ASCII letters and digits: the upper-case
\* form of a string that matches ^[A-Za-z0-9]{1,7}$
Canonical(k) ==
    /\ Len(k) \in 1..7
    /\ \A i \in 1..Len(k) : k[i] \in {"A", "I", "S", DIGIT}

\* the two strings differ in the case of their letters at most
SameUpToCase(x, y) ==
    /\ Len(x) = Len(y)
    /\ \A i \in 1..Len(x) : x[i] = y[i] \/ {x[i], y[i]} = {"a", "A"}

\* the handler makes its cache check in this step
Resolves == look.pc = "validated" /\ call[1].pc = "idle" /\ call'[1].pc # "idle"

\* the fresh cache entries whose key is the typed identifier up to case
FreshFor(raw) ==
    {i \in 1..Len(cache) :
        SameUpToCase(cache[i].key, raw) /\ now' < cache[i].expires}

\* C11: every identifier a call is made with (so every identifier a request
\* is sent for) and every cache key is canonical; upper-casing a matching
\* identifier gives a matching identifier and is idempotent; and a lookup
\* whose identifier differs from a fresh cache key in letter case only is
\* answered from that entry, with no request.
C11_CanonicalIdentifiersOnly ==
    /\ [](/\ \A c \in Calls : call[c].pc # "idle" => Canonical(call[c].vrm)
          /\ \A i \in 1..Len(cache) : Canonical(cache[i].key)
          /\ \A raw \in RawVrms :
                VRM_RE_fullmatch(raw) =>
                    /\ VRM_RE_fullmatch(upper(raw))
                    /\ upper(upper(raw)) = upper(raw))
    /\ [][Resolves =>
            \A i \in FreshFor(look.raw) :
                /\ call'[1].pc = "done"
                /\ call'[1].requests = 0
                /\ call'[1].result = Returned(cache[i].value)]_vars

\* a lookup typed in lower case was answered, with no request, from the
\* entry that a lookup typed in upper case had stored
C11_Witness ==
    /\ look.pc = "validated"
    /\ call[1].pc = "done"
    /\ call[1].requests = 0
    /\ look.raw # look.vrm
    /\ look.vrm \in DOMAIN look.stored_from
    /\ look.stored_from[look.vrm] # look.raw

\* ------------------------------------------------------------------- C12

\* a call that went by the cache alone has ended
HitEnded(c) == call[c].pc \in {"done", "failed"} /\ call[c].requests = 0

\* C12: a call that finds its identifier in the cache returns a complete
\* record, one that a call derived from a page of that identifier and
\* stored: under every interleaving, a hit never fails and never returns
\* anything else.
C12_HitNeverFails ==
    \A c \in Calls :
        HitEnded(c) =>
            /\ call[c].pc = "done"
            /\ call[c].result.ok
            /\ call[c].result.val \in Derivable(call[c].vrm)

\* ------------------------------------------------------------------- C13

\* the entries of the cache that have not expired
Unexpired == {e \in Content(cache) : now < e.expires}

\* call c stores its record in this step
Stores(c) == call[c].pc = "fetching" /\ call'[c].pc = "done"

\* C13: the cache never holds more than CACHE_MAXSIZE entries; a call that
\* stores a record for an identifier that has no unexpired entry, while the
\* cache holds CACHE_MAXSIZE unexpired entries, removes exactly one of them,
\* and the new record is held afterwards.
C13_BoundedWithEviction ==
    /\ [](Len(cache) <= CACHE_MAXSIZE)
    /\ [][\A c \in Calls :
            (/\ Stores(c)
             /\ Cardinality(Unexpired) = CACHE_MAXSIZE
             /\ \A e \in Unexpired : e.key # call[c].vrm)
                => /\ Cardinality(Content(cache) \ Content(cache')) = 1
                   /\ Held(cache', call[c].vrm)
                   /\ Returned(EntryOf(cache', call[c].vrm).value) = call'[c].result]_vars

\* records for A and for C have been stored, no entry can have expired yet,
\* the cache is full and the entry of A is gone
C13_Witness ==
    /\ now = 0
    /\ call[1].pc = "done" /\ call[1].requests > 0 /\ call[1].vrm = "A"
    /\ call[2].pc = "done" /\ call[2].requests > 0 /\ call[2].vrm = "C"
    /\ Len(cache) = CACHE_MAXSIZE
    /\ ~Held(cache, "A")
    /\ Held(cache, "C")

\* ------------------------------------------------------------------- C14

\* the positions of the entries of key
EntriesOf(c, key) == {i \in 1..Len(c) : c[i].key = key}

\* the ways a fetching call can fail by itself: its document does not parse,
\* the status is an error, or its attempts are used up
OwnFailures(c) ==
    {_parse_html(html, call[c].vrm) : html \in pages[call[c].vrm]}
        \cup {HTTPStatusError(st, call[c].attempt) : st \in ErrorStatuses}
        \cup {UpstreamFailed(call[c].last_exc)}

\* C14: calls for the same identifier are not merged.  Whenever a call stores
\* its record, also while another call for the same identifier is in flight
\* or has stored before it, the cache then holds exactly one entry for the
\* identifier, which is the record this call returns, written now; the step
\* changes no other call; and a call that fails after its fetch fails in one
\* of its own ways.
C14_NoSingleFlight ==
    [][\A c \in Calls :
        /\ Stores(c) =>
            /\ Cardinality(EntriesOf(cache', call[c].vrm)) = 1
            /\ EntryOf(cache', call[c].vrm).value = call'[c].result.val
            /\ EntryOf(cache', call[c].vrm).stored = now
            /\ \A d \in Calls \ {c} : call'[d] = call[d]
        /\ (call[c].pc \in {"fetching", "backoff"} /\ call'[c].pc = "failed") =>
            /\ call'[c].result \in OwnFailures(c)
            /\ \A d \in Calls \ {c} : call'[d] = call[d]]_vars

\* two calls for the same identifier, which cannot have expired in between,
\* have both fetched and returned different records, and the one entry of
\* the cache is the record of one of them
C14_Witness ==
    /\ now = 0
    /\ call[1].pc = "done" /\ call[2].pc = "done"
    /\ call[1].requests > 0 /\ call[2].requests > 0
    /\ call[1].vrm = call[2].vrm
    /\ call[1].result # call[2].result
    /\ Cardinality(EntriesOf(cache, call[1].vrm)) = 1
    /\ Returned(EntryOf(cache, call[1].vrm).value) \in {call[1].result, call[2].result}

\* ------------------------------------------------------------------- C15

\* C15: a delay is taken only between two attempts of a call.  A call sleeps
\* only when another attempt follows, and a call that is not sleeping has
\* slept once before each of its attempts but the first: in particular a
\* call that failed after its last attempt did not sleep after it.
C15_DelaysOnlyBetweenAttempts ==
    \A c \in Calls :
        call[c].requests > 0 =>
            /\ call[c].pc = "backoff" =>
                /\ call[c].attempt < RETRY_ATTEMPTS
                /\ call[c].sleeps = call[c].requests
            /\ call[c].pc # "backoff" => call[c].sleeps = call[c].requests - 1

\* ------------------------------------------------------------------- C16

\* the length of the run of backslashes that ends just before position pos
RunBefore(h, pos) ==
    CHOOSE n \in 0..(pos - 1) :
        /\ \A j \in (pos - n)..(pos - 1) : h[j] = BS
        /\ n = pos - 1 \/ h[pos - n - 1] # BS

\* the loop is about to examine the character at ex.pos
Examining == ex.pc = "scan" /\ ex.pos <= Len(ex.html)

\* C16 as stated: when the loop examines a character, escaped is set exactly
\* when an odd number of backslashes comes just before the character in the
\* document; a quote after
\* one backslash leaves in_string as it is, a quote after two backslashes
\* toggles it; and escaped is never set at two characters in a row.
C16_EscapeFlagParity ==
    /\ [](Examining => (ex.st.escaped <=> RunBefore(ex.html, ex.pos) % 2 = 1))
    /\ [][(Examining /\ ex.html[ex.pos] = DQ) =>
            /\ RunBefore(ex.html, ex.pos) = 1 => ex'.st.in_string = ex.st.in_string
            /\ RunBefore(ex.html, ex.pos) = 2 => ex'.st.in_string # ex.st.in_string]_vars
    /\ [][(Examining /\ ex.st.escaped) => ~ex'.st.escaped]_vars

\* the length of the run of backslashes that ends just before position pos,
\* counted in the text from position from on
RunFrom(h, from, pos) ==
    CHOOSE n \in 0..(pos - from) :
        /\ \A j \in (pos - n)..(pos - 1) : h[j] = BS
        /\ n = pos - from \/ h[pos - n - 1] # BS

\* C16 as amended: when the loop examines a character, escaped is set exactly
\* when an odd number of backslashes comes just before the character in the
\* text scanned so far, which starts at the opening brace (at the opening
\* brace itself escaped is unset, whatever precedes the brace); a quote after
\* one backslash leaves in_string as it is, a quote after two backslashes
\* toggles it; and escaped is never set at two characters in a row.
C16_EscapeFlagParityFromBrace ==
    /\ [](Examining =>
            (ex.st.escaped <=> RunFrom(ex.html, ex.start, ex.pos) % 2 = 1))
    /\ [][(Examining /\ ex.html[ex.pos] = DQ) =>
            /\ RunFrom(ex.html, ex.start, ex.pos) = 1
                    => ex'.st.in_string = ex.st.in_string
            /\ RunFrom(ex.html, ex.start, ex.pos) = 2
                    => ex'.st.in_string # ex.st.in_string]_vars
    /\ [][(Examining /\ ex.st.escaped) => ~ex'.st.escaped]_vars

\* the loop has just examined a quote that follows two backslashes
C16_Witness ==
    /\ ex.pc = "scan"
    /\ ex.pos > ex.start + 2
    /\ ex.html[ex.pos - 1] = DQ
    /\ RunBefore(ex.html, ex.pos - 1) = 2

\* ------------------------------------------------------------------- C17

\* the keys of the cache
Keys(c) == {c[i].key : i \in 1..Len(c)}

\* the expiry of key is set in this step: the key is new or its expiry changes
ExpirySet(key) ==
    /\ key \in Keys(cache')
    /\ key \in Keys(cache) => EntryOf(cache', key).expires # EntryOf(cache, key).expires

\* C17: expiry is fixed.  The expiry of every entry is the time of the store
\* that wrote it plus CACHE_TTL; a step sets the expiry of a key only if a
\* call for that key stores its record in that step, having fetched, and
\* then to the time of that step plus CACHE_TTL; so no cache hit changes it.
C17_FixedExpiry ==
    /\ [](\A e \in Content(cache) : e.expires = e.stored + CACHE_TTL)
    /\ [][\A key \in Keys(cache') :
            /\ ExpirySet(key) =>
                /\ \E c \in Calls :
                    Stores(c) /\ call[c].vrm = key /\ call'[c].requests > 0
                /\ EntryOf(cache', key).expires = now + CACHE_TTL
            /\ (key \in Keys(cache) /\ ~\E c \in Calls : Stores(c) /\ call[c].vrm = key)
                => EntryOf(cache', key).stored = EntryOf(cache, key).stored]_vars

\* a call was answered from an entry stored earlier, and the entry still
\* expires CACHE_TTL after its store
C17_Witness ==
    \E c \in Calls :
        /\ call[c].pc = "done"
        /\ call[c].requests = 0
        /\ Held(cache, call[c].vrm)
        /\ EntryOf(cache, call[c].vrm).stored < now
        /\ EntryOf(cache, call[c].vrm).expires = EntryOf(cache, call[c].vrm).stored + CACHE_TTL

\* ------------------------------------------------------------------- C18

LinearStages == <<"cache_check", "fetch", "extract", "decode", "store">>

Rank(stage) == CHOOSE r \in 1..Len(LinearStages) : LinearStages[r] = stage

\* the stages of seq are in the order of LinearStages, each at most once
InOrderOnce(seq) ==
    \A i, j \in 1..Len(seq) : i < j => Rank(seq[i]) < Rank(seq[j])

\* C18, the order of the stages as stated: a call goes through cache check,
\* fetch, extract, decode and store in this order, each at most once.
C18_StagesOnceInOrder ==
    \A c \in Calls : InOrderOnce(call[c].stages)

\* in order and at most once, but for a second extract, with its decode,
\* after a first extract that led to no store
InOrderWithFallback(seq) ==
    \E k \in 0..Len(seq) :
        LET first == SubSeq(seq, 1, k)
            second == SubSeq(seq, k + 1, Len(seq))
        IN /\ InOrderOnce(first)
           /\ InOrderOnce(second)
           /\ second # <<>> =>
                /\ second[1] = "extract"
                /\ \E i \in 1..k : first[i] = "extract"
                /\ \A i \in 1..k : first[i] # "store"

Running(c) == call[c].pc \in {"fetching", "backoff"}

Over(c) == call[c].pc \in {"done", "failed"}

\* C18 as amended: with every request completing and every sleep returning,
\* a call that is fetching ends, done or failed.  Its stages are in the order
\* cache check, fetch, extract, decode, store, the cache check, the fetch and
\* the store at most once, and extract and decode once, or twice when the
\* brace scan or the decoding of its candidate failed and the regex fallback
\* extracts again.  A call that hits does nothing but the cache check and
\* leaves the entries of the cache as they are; a call stores only when it
\* ends done after a fetch; a step in which a call fails writes no entry,
\* and a failed call stays as it is until its caller takes the failure.
C18_EndsInOrder ==
    /\ \A c \in Calls : Running(c) ~> Over(c)
    /\ [](\A c \in Calls :
            /\ InOrderWithFallback(call[c].stages)
            /\ (Over(c) /\ call[c].requests = 0) => call[c].stages = <<"cache_check">>
            /\ (\E i \in 1..Len(call[c].stages) : call[c].stages[i] = "store")
                    <=> (call[c].pc = "done" /\ call[c].requests > 0))
    /\ [][\A c \in Calls :
            /\ (Begins(c) /\ Over(c)') => Content(cache') = Content(cache)
            /\ (call[c].pc # "failed" /\ call'[c].pc = "failed")
                    => Content(cache') = Content(cache)
            /\ call[c].pc = "failed" => call'[c] \in {call[c], IdleCall}]_vars

\* a call failed after its brace scan and its regex fallback both found
\* nothing in the document it fetched
C18_Witness ==
    \E c \in Calls :
        /\ call[c].pc = "failed"
        /\ call[c].stages = <<"cache_check", "fetch", "extract", "extract">>

\* ------------------------------------------------------------------- C19

\* the debug path has scanned the document
DebugScanned == look.pc = "responded"

\* the extractor's scan has delimited a candidate, html[ex.start..ex.pos]
Delimited == ex.pc \in {"decode", "fallback", "done"} /\ ex.json_str # <<>>

\* the extractor's scan has failed: key absent, no '{', or unbalanced braces
ScanFailed == ex.pc = "done" /\ ex.json_str = <<>>

\* whenever the extractor's scan delimits a candidate, the debug scan has the
\* same start and end and its raw text is the candidate
DebugScanSameCandidate ==
    (DebugScanned /\ Delimited) =>
        /\ look.span = [start |-> ex.start, end |-> ex.pos]
        /\ look.chunk = ex.json_str
        /\ look.chunk = SubSeq(input.html, ex.start, ex.pos)

\* C19: the debug scan delimits the same substring as the extractor's scan:
\* whenever the extractor's scan delimits a candidate html[start..end], the
\* debug scan computes the same start and end and its raw text is that
\* substring; and whenever the extractor's scan fails (key absent, no '{', or
\* unbalanced braces) the raw text of the debug scan is empty.
C19_DebugScanAgrees ==
    /\ DebugScanSameCandidate
    /\ (DebugScanned /\ ScanFailed) => look.chunk = <<>>

\* ------------------------------------------------------------------- C20

\* the handler is in its debug path, in this state or the next
InDebugPath == look.pc = "debug" \/ look'.pc = "debug"

\* an upstream request is sent in this step
Sends == call[1].pc # "fetching" /\ call'[1].pc = "fetching"

\* the response of a debug path that fetched and scanned a document
DebugRendered ==
    /\ look.pc = "responded"
    /\ look.debug_requests > 0
    /\ look.response.status = 200

\* C20: the debug path runs only in a request with debug=true whose
\* get_vehicle_info call raised an HTTPException; no step of it changes the
\* cache, its order included, so after a debug-rendered response (also one
\* whose literal_eval succeeded) the cache holds no live entry for the
\* identifier and the next call for it fetches; in a request with debug=false
\* requests are sent only inside the one get_vehicle_info call, at most
\* RETRY_ATTEMPTS of them.
C20_DebugPathLeavesCache ==
    /\ [](look.pc = "debug" \/ look.debug_requests > 0
            => look.debug /\ look.e.type = "HTTPException")
    /\ [][InDebugPath => cache' = cache]_vars
    /\ [](DebugRendered => ~cache_contains(cache, look.vrm, now))
    /\ [][(Sends /\ ~look.debug) => (look.pc = "validated" /\ look'.pc = "validated")]_vars
    /\ []((look.pc = "responded" /\ ~look.debug)
            => look.debug_requests = 0 /\ look.requests <= RETRY_ATTEMPTS)

\* a debug path has answered with the lines of what literal_eval read, while
\* the cache holds an entry of an earlier request
C20_Witness ==
    /\ DebugRendered
    /\ look.response.body[1] = "lines"
    /\ cache # <<>>

====
